---- MODULE Spec2Model ----
(***************************************************************************)
(* LlamaWrapper (src/src/mods/llamaNodeCppWrapper.ts): the lifecycle       *)
(* manager around a node-llama-cpp chat session.  The wrapper's fields are *)
(* the state; every public method is an operation.  An async method is cut *)
(* at its single await: the part before the await (guards, setStatus, the  *)
(* engine call being issued) is one action, the continuation after the     *)
(* engine settles (success or rejection) is another.  The inference engine *)
(* is an external collaborator: each awaited engine call may resolve or    *)
(* reject, chosen nondeterministically.                                    *)
(***************************************************************************)
EXTENDS Integers, Sequences, FiniteSets, TLC

VARIABLES
    id,        \* this.id
    status,    \* this.status : [status, message]
    module,    \* this.module  (Undefined, or the n-th module handle obtained)
    llama,     \* this.llama   (Undefined, or the n-th engine handle obtained)
    model,     \* this.model   (Undefined, or the n-th model handle obtained)
    session,   \* this.session (Undefined, or the n-th session handle created)
    disposed,  \* the session handles on which dispose() has been called
    aborted,   \* this.abortController.signal.aborted
    fired,     \* how many times the signal's abort event has fired
    history,   \* the chat history the engine holds for the session in this.session
    calls,     \* per call slot: the call in flight or the last call completed
    polled,    \* the latest getter call since the state last changed, its result
    caller,    \* how the caller issues calls: "serialized" awaits each one
    scope      \* what the environment of this run ranges over (see Scopes)

vars == <<id, status, module, llama, model, session, disposed, aborted, fired,
          history, calls, polled, caller, scope>>

----------------------------------------------------------------------------
(* Bounds *)

\* How many handles of one kind the engine hands out (1 = first load,
\* 2 = one reload) before further loads of that kind only fail.
MaxGen == 2

\* Call slots: a caller that serializes its calls only ever uses one.
NumSlots == 2

\* Longest chat history handed to setHistory
MaxItems == 2

\* Most chunks the engine produces during one generation
MaxChunks == 2

Slots == 1..NumSlots

----------------------------------------------------------------------------
(* Values *)

\* `undefined` for a handle field; a handle is a positive number.
Undefined == 0

\* uuidv4() results
Ids == {"uuid-a", "uuid-b"}

\* err.message of a rejected engine call
Details == {"engine detail 1", "engine detail 2"}

\* modelPath arguments of loadModel: undefined, the empty string, a path
NoPath == "<undefined>"
Paths == {NoPath, "", "model.gguf"}

\* Chunks (Token[], tokens being 1 and 2) the engine hands to the onToken
\* option of session.prompt
Chunks == {<<1>>, <<2>>, <<1, 2>>}

\* The text of one token
Piece(token) == IF token = 1 THEN <<"H", "i">> ELSE <<"!">>

\* this.session.model.detokenize(chunk): the text of the tokens, in order
RECURSIVE detokenize(_)
detokenize(chunk) ==
    IF chunk = <<>> THEN <<>>
    ELSE Piece(Head(chunk)) \o detokenize(Tail(chunk))

\* The tokens of a list of chunks, in order
RECURSIVE Flatten(_)
Flatten(chunks) ==
    IF chunks = <<>> THEN <<>>
    ELSE Head(chunks) \o Flatten(Tail(chunks))

\* What session.prompt resolves to: the text of the tokens it generated
Answer(chunks) == detokenize(Flatten(chunks))

\* ChatHistoryItem: a system prompt, a user message, a model response
SystemItem == <<"system", "You are an assistant.">>
UserItem == <<"user", "Hey.">>
ModelItem == <<"model", <<"Hello !">>>>
Items == {SystemItem, UserItem, ModelItem}

\* chatHistoryItem arguments of setHistory
HistoryInputs == UNION {[1..n -> Items] : n \in 0..scope.items}

\* The chat history of a session is the engine's: the model follows its
\* content only from a successful setChatHistory until the engine next
\* rewrites it (a generation, a new session, possibly a clearHistory).
\* Until then it is this placeholder for "whatever the engine holds".
EngineOwned == << <<"engine", "owned">> >>

\* payload left out of setStatus(status)
NoPayload == <<>>

\* Events a call leaves in its trace, in program order
EngineEvents == {"engine:import", "engine:getLlama", "engine:loadModel",
                 "engine:createContext", "engine:session.prompt",
                 "engine:session.getChatHistory",
                 "engine:session.setChatHistory", "engine:session.dispose",
                 "engine:sequence.clearHistory"}

\* The fields a call finds when it starts
Snapshot == [module |-> module, llama |-> llama, model |-> model,
             session |-> session, aborted |-> aborted,
             inError |-> status.status = "error",
             released |-> session \in disposed]

\* A call slot nobody has used yet
Idle == [st |-> "idle", op |-> "none", arg |-> <<>>,
         pre |-> [module |-> Undefined, llama |-> Undefined,
                  model |-> Undefined, session |-> Undefined,
                  aborted |-> FALSE, inError |-> FALSE, released |-> FALSE],
         after |-> <<"none">>, chunks |-> <<>>, seen |-> <<>>,
         target |-> Undefined, trace |-> <<>>, outcome |-> "none",
         result |-> <<>>]

\* No getter called since the state last changed
NotPolled == <<"none">>

----------------------------------------------------------------------------
(* Pure helpers *)

\* private setStatus(status, payload?)
setStatus(st, payload) == [status |-> st, message |-> payload]

\* isReady()
isReady == status.status = "ready"

\* Fault: a fresh controller per failure, so the signal fires every time.
abortSignal_Refired == [aborted |-> TRUE, fired |-> fired + 1]

\* AbortController.abort(): the signal fires the first time only
abortSignal == IF aborted THEN [aborted |-> TRUE, fired |-> fired]
               ELSE [aborted |-> TRUE, fired |-> fired + 1]

\* `new Error(text)` reaching the caller
Thrown(text) == <<"Error", text>>

HasEngineCall(trace) == \E i \in 1..Len(trace) : trace[i] \in EngineEvents

----------------------------------------------------------------------------
(* Call bookkeeping *)

\* A caller may start a call of op in slot s: a serialized caller awaits
\* every call before the next one, an overlapping caller takes the first
\* slot that has no call in flight, and starts over a call in flight only
\* the operations its scope lets overlap.
CanCall(s, op) ==
    IF caller = "serialized"
    THEN s = 1 /\ \A t \in Slots : calls[t].st # "awaiting"
    ELSE /\ calls[s].st # "awaiting"
         /\ \A t \in 1..(s - 1) : calls[t].st = "awaiting"
         /\ \A t \in Slots :
                calls[t].st = "awaiting" =>
                    op \in scope.overlaps /\ calls[t].op \in scope.overlapped

\* The slots as a new call in slot s leaves them: the calls in flight stay,
\* the records of completed calls are dropped.
Begun(s, call) ==
    [t \in Slots |-> IF t = s THEN call
                     ELSE IF calls[t].st = "awaiting" THEN calls[t]
                     ELSE Idle]

\* What the caller did just before the call it now makes in slot s:
\* a setHistory that returned (and the items it was handed), or not.
Previous(s) ==
    IF calls[s].st = "idle" THEN <<"none">>
    ELSE IF calls[s].op = "setHistory" /\ calls[s].outcome = "returned"
    THEN <<"setHistory", calls[s].arg[1]>>
    ELSE <<"other">>

\* The call begins and is rejected by a guard or completes synchronously.
Done(s, op, arg, target, trace, outcome, result) ==
    calls' = Begun(s, [st |-> "done", op |-> op, arg |-> arg, pre |-> Snapshot,
                       after |-> Previous(s), chunks |-> <<>>, seen |-> <<>>,
                       target |-> target, trace |-> trace, outcome |-> outcome,
                       result |-> result])

\* The call begins and is suspended at its await.
Await(s, op, arg, target, trace) ==
    calls' = Begun(s, [st |-> "awaiting", op |-> op, arg |-> arg, pre |-> Snapshot,
                       after |-> Previous(s), chunks |-> <<>>, seen |-> <<>>,
                       target |-> target, trace |-> trace, outcome |-> "pending",
                       result |-> <<>>])

\* The awaited engine call of slot s settled and the method finished.
Settle(s, trace, outcome, result) ==
    calls' = [calls EXCEPT ![s] =
                [@ EXCEPT !.st = "done", !.trace = @ \o trace,
                          !.outcome = outcome, !.result = result]]

Awaiting(s, op) == calls[s].st = "awaiting" /\ calls[s].op = op

----------------------------------------------------------------------------
(* constructor *)

\* Scopes: what the environment ranges over in one specification.  gens is
\* how many module, engine and model handles the engine hands out before
\* loads of that kind only fail, sessions the same for sessions, items the
\* longest list handed to setHistory, ids the identifiers uuidv4 may
\* return, details the messages of the engine's failures, chunks how many
\* chunks a generation produces at most and out of which set, callbacks
\* whether prompt is handed an onToken (TRUE) or not (FALSE), caller
\* whether the caller awaits each call before the next, overlaps the
\* operations an overlapping caller starts while a call is in flight,
\* overlapped the operations that are in flight then.
LifecycleScope == [gens |-> 1, sessions |-> MaxGen, items |-> 0,
                   ids |-> {"uuid-a"}, details |-> Details,
                   chunks |-> 1, of |-> {<<1>>}, callbacks |-> {TRUE},
                   caller |-> "serialized", overlaps |-> {}, overlapped |-> {}]
ReloadScope == [gens |-> MaxGen, sessions |-> MaxGen, items |-> 0,
                ids |-> {"uuid-a"}, details |-> {"engine detail 1"},
                chunks |-> 1, of |-> {<<1>>}, callbacks |-> {TRUE},
                caller |-> "serialized", overlaps |-> {}, overlapped |-> {}]
HistoryScope == [gens |-> 1, sessions |-> 1, items |-> MaxItems,
                 ids |-> {"uuid-a"}, details |-> {"engine detail 1"},
                 chunks |-> 1, of |-> {<<1>>}, callbacks |-> {TRUE},
                 caller |-> "serialized", overlaps |-> {}, overlapped |-> {}]
StreamScope == [gens |-> 1, sessions |-> 1, items |-> 0,
                ids |-> Ids, details |-> Details,
                chunks |-> MaxChunks, of |-> Chunks, callbacks |-> BOOLEAN,
                caller |-> "serialized", overlaps |-> {}, overlapped |-> {}]
OverlapScope == [gens |-> 1, sessions |-> 1, items |-> 0,
                 ids |-> {"uuid-a"}, details |-> {"engine detail 1"},
                 chunks |-> MaxChunks, of |-> {<<1>>}, callbacks |-> {TRUE},
                 caller |-> "overlapping",
                 overlaps |-> {"prompt", "getHistory", "setHistory", "disposeSession"},
                 overlapped |-> {"prompt", "getHistory", "setHistory"}]

\* Fault: a wrapper that is constructed 'ready'.
constructorStatus_Ready == setStatus("ready", NoPayload)

\* this.setStatus('uninitialized', 'Wrapper not initialized')
constructorStatus == setStatus("uninitialized", <<"Wrapper not initialized">>)

Constructed(sc) ==
    /\ scope = sc
    /\ id \in sc.ids
    /\ status = constructorStatus
    /\ module = Undefined
    /\ llama = Undefined
    /\ model = Undefined
    /\ session = Undefined
    /\ disposed = {}
    /\ aborted = FALSE
    /\ fired = 0
    /\ history = EngineOwned
    /\ calls = [s \in Slots |-> Idle]
    /\ polled = NotPolled
    /\ caller = sc.caller

\* The lifecycle: sessions can be replaced, setHistory is handed []
Init == Constructed(LifecycleScope)

\* Reloading: every stage can be loaded again
InitReload == Constructed(ReloadScope)

\* Chat histories: one handle per stage, setHistory is handed every list
InitHistory == Constructed(HistoryScope)

\* Streaming: one handle per stage, generations of several chunks, prompt
\* called with and without onToken
InitStream == Constructed(StreamScope)

\* Overlapping calls: the caller starts a call while another one awaits
InitOverlap == Constructed(OverlapScope)

----------------------------------------------------------------------------
(* loadModule() *)

LoadModule(s) ==
    /\ CanCall(s, "loadModule")
    /\ status' = setStatus("loading", <<"Loading module from Node Llama Cpp">>)
    /\ Await(s, "loadModule", <<>>, Undefined, <<"status:loading", "engine:import">>)
    /\ polled' = NotPolled
    /\ UNCHANGED <<id, caller, scope, history, module, llama, model, session, disposed, aborted, fired>>

LoadModuleOk(s) ==
    /\ Awaiting(s, "loadModule")
    /\ module < scope.gens
    /\ module' = module + 1
    /\ status' = setStatus("ready", NoPayload)
    /\ Settle(s, <<"status:ready", "return">>, "returned", <<>>)
    /\ polled' = NotPolled
    /\ UNCHANGED <<id, caller, scope, history, llama, model, session, disposed, aborted, fired>>

LoadModuleFail(s) ==
    /\ Awaiting(s, "loadModule")
    /\ \E d \in scope.details :
        /\ status' = setStatus("error", <<"loadModule:", d>>)
        /\ Settle(s, <<"status:error", "throw">>, "threw", Thrown(d))
    /\ polled' = NotPolled
    /\ UNCHANGED <<id, caller, scope, history, module, llama, model, session, disposed, aborted, fired>>

----------------------------------------------------------------------------
(* loadLlama(gpu?) *)

\* Fault: the module guard of loadLlama never rejects.
loadLlamaGuard_Dropped == FALSE

\* Fault: once the phase is 'error', loadLlama rejects every call.
loadLlamaGuard_ErrorSticky == module = Undefined \/ status.status = "error"

\* if (!this.module)
loadLlamaGuard == module = Undefined

LoadLlama(s) ==
    /\ CanCall(s, "loadLlama")
    /\ IF loadLlamaGuard
       THEN /\ status' = setStatus("error", <<"loadLlama: ", "No module found.">>)
            /\ Done(s, "loadLlama", <<>>, Undefined, <<"status:error", "throw">>,
                    "threw", Thrown("Ignoring attempt to load llama, no module found."))
       ELSE /\ status' = setStatus("loading", <<"Loading Llama lib">>)
            /\ Await(s, "loadLlama", <<>>, module,
                     <<"status:loading", "engine:getLlama">>)
    /\ polled' = NotPolled
    /\ UNCHANGED <<id, caller, scope, history, module, llama, model, session, disposed, aborted, fired>>

LoadLlamaOk(s) ==
    /\ Awaiting(s, "loadLlama")
    /\ llama < scope.gens
    /\ llama' = llama + 1
    /\ status' = setStatus("ready", NoPayload)
    /\ Settle(s, <<"status:ready", "return">>, "returned", <<>>)
    /\ polled' = NotPolled
    /\ UNCHANGED <<id, caller, scope, history, module, model, session, disposed, aborted, fired>>

LoadLlamaFail(s) ==
    /\ Awaiting(s, "loadLlama")
    /\ \E d \in scope.details :
        /\ status' = setStatus("error", <<"loadLlama: ", d>>)
        /\ Settle(s, <<"status:error", "throw">>, "threw", Thrown(d))
    /\ polled' = NotPolled
    /\ UNCHANGED <<id, caller, scope, history, module, llama, model, session, disposed, aborted, fired>>

----------------------------------------------------------------------------
(* loadModel(modelPath) *)

\* Fault: loadModel tests the module before the path.
loadModelGuard_ModuleFirst(path) ==
    IF module = Undefined
    THEN <<"No module found.", "Ignoring attempt to load model, no module found.">>
    ELSE IF path = NoPath \/ path = ""
    THEN <<"No path provided.", "Ignoring attempt to load model, no path provided.">>
    ELSE IF llama = Undefined
    THEN <<"No llama lib loaded.", "Ignoring attempt to load model, no llama lib loaded.">>
    ELSE <<>>

\* Fault: loadModel does not test the engine.
loadModelGuard_NoEngineTest(path) ==
    IF path = NoPath \/ path = ""
    THEN <<"No path provided.", "Ignoring attempt to load model, no path provided.">>
    ELSE IF module = Undefined
    THEN <<"No module found.", "Ignoring attempt to load model, no module found.">>
    ELSE <<>>

\* The three guards of loadModel, in program order: the detail and the
\* thrown text of the first one that rejects the call, or <<>> when all pass.
loadModelGuard(path) ==
    IF path = NoPath \/ path = ""
    THEN <<"No path provided.", "Ignoring attempt to load model, no path provided.">>
    ELSE IF module = Undefined
    THEN <<"No module found.", "Ignoring attempt to load model, no module found.">>
    ELSE IF llama = Undefined
    THEN <<"No llama lib loaded.", "Ignoring attempt to load model, no llama lib loaded.">>
    ELSE <<>>

LoadModel(s) ==
    /\ CanCall(s, "loadModel")
    /\ \E path \in Paths :
        LET g == loadModelGuard(path) IN
        IF g # <<>>
        THEN /\ status' = setStatus("error", <<"loadModel: ", g[1]>>)
             /\ Done(s, "loadModel", <<path>>, Undefined, <<"status:error", "throw">>,
                     "threw", Thrown(g[2]))
        ELSE /\ status' = setStatus("loading", <<"Loading model from ", path>>)
             /\ Await(s, "loadModel", <<path>>, llama,
                      <<"status:loading", "engine:loadModel">>)
    /\ polled' = NotPolled
    /\ UNCHANGED <<id, caller, scope, history, module, llama, model, session, disposed, aborted, fired>>

LoadModelOk(s) ==
    /\ Awaiting(s, "loadModel")
    /\ model < scope.gens
    /\ model' = model + 1
    /\ status' = setStatus("ready", NoPayload)
    /\ Settle(s, <<"status:ready", "return">>, "returned", <<>>)
    /\ polled' = NotPolled
    /\ UNCHANGED <<id, caller, scope, history, module, llama, session, disposed, aborted, fired>>

\* Fault: the catch block of the earlier revision, which tags nothing and
\* swallows the failure.
LoadModelFail_Swallowed(s) ==
    /\ Awaiting(s, "loadModel")
    /\ \E d \in scope.details :
        /\ status' = setStatus("error", <<d>>)
        /\ Settle(s, <<"status:error", "return">>, "returned", <<>>)
    /\ polled' = NotPolled
    /\ UNCHANGED <<id, caller, scope, history, module, llama, model, session, disposed, aborted, fired>>

LoadModelFail(s) ==
    /\ Awaiting(s, "loadModel")
    /\ \E d \in scope.details :
        /\ status' = setStatus("error", <<"loadModel: ", d>>)
        /\ Settle(s, <<"status:error", "throw">>, "threw", Thrown(d))
    /\ polled' = NotPolled
    /\ UNCHANGED <<id, caller, scope, history, module, llama, model, session, disposed, aborted, fired>>

----------------------------------------------------------------------------
(* initSession(systemPrompt) *)

\* The two guards of initSession, in program order.
initSessionGuard ==
    IF model = Undefined
    THEN <<"No model loaded.", "Ignoring attempt to initialize session, no model loaded.">>
    ELSE IF module = Undefined
    THEN <<"No module found.", "Ignoring attempt to initialize session, no module found.">>
    ELSE <<>>

InitSession(s) ==
    /\ CanCall(s, "initSession")
    /\ LET g == initSessionGuard IN
       IF g # <<>>
       THEN /\ status' = setStatus("error", <<"initSession: ", g[1]>>)
            /\ Done(s, "initSession", <<>>, Undefined, <<"status:error", "throw">>,
                    "threw", Thrown(g[2]))
       ELSE /\ status' = setStatus("loading", <<"Initializing session">>)
            /\ Await(s, "initSession", <<>>, model,
                     <<"status:loading", "engine:createContext">>)
    /\ polled' = NotPolled
    /\ UNCHANGED <<id, caller, scope, history, module, llama, model, session, disposed, aborted, fired>>

\* Fault: initSession re-arms cancellation with a new AbortController.
InitSessionOk_Rearmed(s) ==
    /\ Awaiting(s, "initSession")
    /\ session < scope.sessions
    /\ session' = session + 1
    /\ history' = EngineOwned
    /\ aborted' = FALSE
    /\ status' = setStatus("ready", NoPayload)
    /\ Settle(s, <<"status:ready", "return">>, "returned", <<>>)
    /\ polled' = NotPolled
    /\ UNCHANGED <<id, caller, scope, module, llama, model, disposed, fired>>

\* Fault: initSession disposes the session it replaces.
InitSessionOk_DisposesOld(s) ==
    /\ Awaiting(s, "initSession")
    /\ session < scope.sessions
    /\ session' = session + 1
    /\ history' = EngineOwned
    /\ disposed' = IF session # Undefined THEN disposed \cup {session} ELSE disposed
    /\ status' = setStatus("ready", NoPayload)
    /\ Settle(s, (IF session # Undefined THEN <<"engine:session.dispose">> ELSE <<>>)
                 \o <<"status:ready", "return">>, "returned", <<>>)
    /\ polled' = NotPolled
    /\ UNCHANGED <<id, caller, scope, module, llama, model, aborted, fired>>

\* createContext resolved, getSequence and new LlamaChatSession succeeded:
\* this.session is a new session with a history of its own
InitSessionOk(s) ==
    /\ Awaiting(s, "initSession")
    /\ session < scope.sessions
    /\ session' = session + 1
    /\ history' = EngineOwned
    /\ status' = setStatus("ready", NoPayload)
    /\ Settle(s, <<"status:ready", "return">>, "returned", <<>>)
    /\ polled' = NotPolled
    /\ UNCHANGED <<id, caller, scope, module, llama, model, disposed, aborted, fired>>

\* Fault: a failed initSession drops the session it was to replace.
InitSessionFail_DropsSession(s) ==
    /\ Awaiting(s, "initSession")
    /\ \E d \in scope.details :
        /\ status' = setStatus("error", <<"initSession: ", d>>)
        /\ Settle(s, <<"status:error", "throw">>, "threw", Thrown(d))
    /\ session' = Undefined
    /\ polled' = NotPolled
    /\ UNCHANGED <<id, caller, scope, history, module, llama, model, disposed, aborted, fired>>

\* createContext rejected, or getSequence / new LlamaChatSession threw
InitSessionFail(s) ==
    /\ Awaiting(s, "initSession")
    /\ \E d \in scope.details :
        /\ status' = setStatus("error", <<"initSession: ", d>>)
        /\ Settle(s, <<"status:error", "throw">>, "threw", Thrown(d))
    /\ polled' = NotPolled
    /\ UNCHANGED <<id, caller, scope, history, module, llama, model, session, disposed, aborted, fired>>

----------------------------------------------------------------------------
(* errorCallback: the shared abort action *)

\* Fault: the abort action of the earlier revision, which only aborts.
errorCallback_AbortOnly ==
    [aborted  |-> abortSignal.aborted,
     fired    |-> abortSignal.fired,
     disposed |-> disposed,
     trace    |-> <<"abort">>]

\* this.abortController.abort(); if (this.session) this.session.dispose();
errorCallback ==
    [aborted  |-> abortSignal.aborted,
     fired    |-> abortSignal.fired,
     disposed |-> IF session # Undefined THEN disposed \cup {session} ELSE disposed,
     trace    |-> IF session # Undefined
                  THEN <<"abort", "engine:session.dispose">>
                  ELSE <<"abort">>]

\* Fault: the catch block runs the abort action and throws without
\* setting the status.
CatchDataError_StatusMissing(s, tag, d) ==
    LET cb == errorCallback IN
    /\ aborted' = cb.aborted
    /\ fired' = cb.fired
    /\ disposed' = cb.disposed
    /\ status' = status
    /\ Settle(s, cb.trace \o <<"throw">>, "threw", Thrown(d))

\* The catch block shared by prompt, getHistory and setHistory:
\* errorCallback(); setStatus('error', tag + err.message); throw new Error(err)
CatchDataError(s, tag, d) ==
    LET cb == errorCallback IN
    /\ aborted' = cb.aborted
    /\ fired' = cb.fired
    /\ disposed' = cb.disposed
    /\ status' = setStatus("error", <<tag, d>>)
    /\ Settle(s, cb.trace \o <<"status:error", "throw">>, "threw", Thrown(d))

----------------------------------------------------------------------------
(* prompt(message, onToken?) *)

\* Fault: the session guard of the data operations never rejects.
noSession_Dropped == FALSE

\* if (this.session === undefined)
noSession == session = Undefined

\* What prompt hands back when session.prompt resolved with `answer`
promptResult(answer) == <<"text", answer>>

\* Fault: the no-session guard of prompt runs the abort action before it
\* throws.
Prompt_GuardAborts(s) ==
    /\ CanCall(s, "prompt")
    /\ \E given \in scope.callbacks :
       IF noSession
       THEN /\ status' = setStatus("error", <<"prompt: ", "No session found.">>)
            /\ Done(s, "prompt", <<given>>, Undefined, <<"status:error", "throw">>,
                    "threw", Thrown("Ignoring attempt to prompt, no session found"))
            /\ aborted' = abortSignal.aborted
            /\ fired' = abortSignal.fired
       ELSE /\ status' = setStatus("generating", NoPayload)
            /\ Await(s, "prompt", <<given>>, session,
                     <<"status:generating", "engine:session.prompt">>)
            /\ UNCHANGED <<aborted, fired>>
    /\ polled' = NotPolled
    /\ UNCHANGED <<id, caller, scope, history, module, llama, model, session, disposed>>

\* given: whether the caller handed prompt an onToken (arg[1])
Prompt(s) ==
    /\ CanCall(s, "prompt")
    /\ \E given \in scope.callbacks :
       IF noSession
       THEN /\ status' = setStatus("error", <<"prompt: ", "No session found.">>)
            /\ Done(s, "prompt", <<given>>, Undefined, <<"status:error", "throw">>,
                    "threw", Thrown("Ignoring attempt to prompt, no session found"))
       ELSE /\ status' = setStatus("generating", NoPayload)
            /\ Await(s, "prompt", <<given>>, session,
                     <<"status:generating", "engine:session.prompt">>)
    /\ polled' = NotPolled
    /\ UNCHANGED <<id, caller, scope, history, module, llama, model, session, disposed, aborted, fired>>

\* Fault: the callback is handed every chunk twice.
onToken_Twice(given, chunk) ==
    IF given /\ session # Undefined
    THEN <<detokenize(chunk), detokenize(chunk)>>
    ELSE <<>>

\* The onToken option handed to session.prompt: the texts it passes on to
\* the caller's onToken for one chunk.
\* if (onToken !== undefined && this.session !== undefined)
\*     onToken(this.session.model.detokenize(chunk))
onToken(given, chunk) ==
    IF given /\ session # Undefined
    THEN <<detokenize(chunk)>>
    ELSE <<>>

\* The trace event of a chunk: whether the session of the generation had
\* been disposed when the engine produced it
ChunkEvent(target) == IF target \in disposed THEN "chunk:released" ELSE "chunk"

\* The engine produced a chunk during the generation and called the onToken
\* option with it.  A generation whose signal has fired produces nothing;
\* whether one whose session has been disposed still produces a chunk is
\* up to the engine.
PromptChunk(s) ==
    /\ Awaiting(s, "prompt")
    /\ ~aborted
    /\ Len(calls[s].chunks) < scope.chunks
    /\ \E chunk \in scope.of :
        LET texts == onToken(calls[s].arg[1], chunk) IN
        calls' = [calls EXCEPT ![s] =
                    [@ EXCEPT !.chunks = Append(@, chunk),
                              !.seen = @ \o texts,
                              !.trace = @ \o <<ChunkEvent(calls[s].target)>>
                                          \o [i \in 1..Len(texts) |-> "onToken"]]]
    /\ polled' = NotPolled
    /\ UNCHANGED <<id, caller, scope, history, status, module, llama, model, session,
                   disposed, aborted, fired>>

\* session.prompt resolved.  The engine is handed the controller's signal
\* (signal: this.abortController.signal) and honours it: a generation whose
\* signal has fired is aborted, it does not resolve.
PromptOk(s) ==
    /\ Awaiting(s, "prompt")
    /\ ~aborted
    /\ history' = EngineOwned
    /\ status' = setStatus("ready", NoPayload)
    /\ Settle(s, <<"status:ready", "return">>, "returned",
              promptResult(Answer(calls[s].chunks)))
    /\ polled' = NotPolled
    /\ UNCHANGED <<id, caller, scope, module, llama, model, session, disposed, aborted, fired>>

PromptFail(s) ==
    /\ Awaiting(s, "prompt")
    /\ \E d \in scope.details : CatchDataError(s, "prompt: ", d)
    /\ polled' = NotPolled
    /\ UNCHANGED <<id, caller, scope, history, module, llama, model, session>>

----------------------------------------------------------------------------
(* getHistory() *)

\* Fault: the empty list the earlier revision hands back from its catch.
getHistoryResult_Empty(chatHistory) == <<"history", <<>>>>

\* return chatHistory
getHistoryResult(chatHistory) == <<"history", chatHistory>>

GetHistory(s) ==
    /\ CanCall(s, "getHistory")
    /\ IF noSession
       THEN /\ status' = setStatus("error", <<"getHistory: ", "No session found.">>)
            /\ Done(s, "getHistory", <<>>, Undefined, <<"status:error", "throw">>,
                    "threw", Thrown("Ignoring history retrieval, no session found"))
       ELSE /\ status' = setStatus("generating", NoPayload)
            /\ Await(s, "getHistory", <<>>, session,
                     <<"status:generating", "engine:session.getChatHistory">>)
    /\ polled' = NotPolled
    /\ UNCHANGED <<id, caller, scope, history, module, llama, model, session, disposed, aborted, fired>>

GetHistoryOk(s) ==
    /\ Awaiting(s, "getHistory")
    /\ status' = setStatus("ready", <<"History retrieved">>)
    /\ Settle(s, <<"status:ready", "return">>, "returned", getHistoryResult(history))
    /\ polled' = NotPolled
    /\ UNCHANGED <<id, caller, scope, history, module, llama, model, session, disposed, aborted, fired>>

GetHistoryFail(s) ==
    /\ Awaiting(s, "getHistory")
    /\ \E d \in scope.details : CatchDataError(s, "getHistory: ", d)
    /\ polled' = NotPolled
    /\ UNCHANGED <<id, caller, scope, history, module, llama, model, session>>

----------------------------------------------------------------------------
(* setHistory(chatHistoryItem) *)

SetHistory(s) ==
    /\ CanCall(s, "setHistory")
    /\ \E items \in HistoryInputs :
       IF noSession
       THEN /\ status' = setStatus("error", <<"getHistory: ", "No session found.">>)
            /\ Done(s, "setHistory", <<items>>, Undefined, <<"status:error", "throw">>,
                    "threw", Thrown("Ignoring history update, no session found"))
       ELSE /\ status' = setStatus("loading", <<"Loading chat history">>)
            /\ Await(s, "setHistory", <<items>>, session,
                     <<"status:loading", "engine:session.setChatHistory">>)
    /\ polled' = NotPolled
    /\ UNCHANGED <<id, caller, scope, history, module, llama, model, session, disposed, aborted, fired>>

\* Fault: setHistory returns without setting 'ready'.
SetHistoryOk_StaysLoading(s) ==
    /\ Awaiting(s, "setHistory")
    /\ history' = calls[s].arg[1]
    /\ Settle(s, <<"return">>, "returned", <<>>)
    /\ polled' = NotPolled
    /\ UNCHANGED <<id, caller, scope, status, module, llama, model, session, disposed,
                   aborted, fired>>

\* setChatHistory resolved: the engine now holds the items it was handed
SetHistoryOk(s) ==
    /\ Awaiting(s, "setHistory")
    /\ history' = calls[s].arg[1]
    /\ status' = setStatus("ready", <<"Chat history loaded">>)
    /\ Settle(s, <<"status:ready", "return">>, "returned", <<>>)
    /\ polled' = NotPolled
    /\ UNCHANGED <<id, caller, scope, module, llama, model, session, disposed, aborted, fired>>

SetHistoryFail(s) ==
    /\ Awaiting(s, "setHistory")
    /\ \E d \in scope.details : CatchDataError(s, "setHistory: ", d)
    /\ polled' = NotPolled
    /\ UNCHANGED <<id, caller, scope, history, module, llama, model, session>>

----------------------------------------------------------------------------
(* disposeSession() *)

\* if (!this.session)
disposeSessionGuard == session = Undefined

\* this.session.dispose(): the handle is released, the field keeps it
disposeSessionEffect == [session |-> session, disposed |-> disposed \cup {session}]

\* Fault: disposing the session takes the wrapper back to 'uninitialized'.
DisposeSession_ResetsStatus(s) ==
    /\ CanCall(s, "disposeSession")
    /\ IF disposeSessionGuard
       THEN /\ status' = setStatus("error", <<"disposeSession: ", "No session found.">>)
            /\ Done(s, "disposeSession", <<>>, Undefined, <<"status:error", "throw">>,
                    "threw", Thrown("Ignoring attempt to dispose session, no session found."))
            /\ UNCHANGED <<session, disposed>>
       ELSE /\ session' = disposeSessionEffect.session
            /\ disposed' = disposeSessionEffect.disposed
            /\ Done(s, "disposeSession", <<>>, session,
                    <<"engine:session.dispose", "return">>, "returned", <<>>)
            /\ status' = setStatus("uninitialized", <<"Wrapper not initialized">>)
    /\ polled' = NotPolled
    /\ UNCHANGED <<id, caller, scope, history, module, llama, model, aborted, fired>>

DisposeSession(s) ==
    /\ CanCall(s, "disposeSession")
    /\ IF disposeSessionGuard
       THEN /\ status' = setStatus("error", <<"disposeSession: ", "No session found.">>)
            /\ Done(s, "disposeSession", <<>>, Undefined, <<"status:error", "throw">>,
                    "threw", Thrown("Ignoring attempt to dispose session, no session found."))
            /\ UNCHANGED <<session, disposed>>
       ELSE /\ session' = disposeSessionEffect.session
            /\ disposed' = disposeSessionEffect.disposed
            /\ Done(s, "disposeSession", <<>>, session,
                    <<"engine:session.dispose", "return">>, "returned", <<>>)
            /\ UNCHANGED status
    /\ polled' = NotPolled
    /\ UNCHANGED <<id, caller, scope, history, module, llama, model, aborted, fired>>

----------------------------------------------------------------------------
(* clearHistory() *)

\* What `this.session.sequence` evaluates to once the session is known to
\* be defined: a live session has its sequence; what a disposed session
\* answers is up to the engine (the sequence, nothing, or a throw).
sessionSequence ==
    IF session \in disposed THEN {"sequence", "none", "DisposedError"}
    ELSE {"sequence"}

\* The trace event of evaluating this.session.sequence
SequenceRead(seq) ==
    CASE seq = "unread" -> "sequence:unread"
      [] seq = "none" -> "sequence:none"
      [] seq = "sequence" -> "sequence:present"

\* The two guards of clearHistory, in program order; seq is what
\* this.session.sequence evaluated to.
clearHistoryGuard(seq) ==
    IF session = Undefined
    THEN <<"No session found.", "Ignoring attempt to clear history, no session found.">>
    ELSE IF seq = "none"
    THEN <<"No sequence found for the session.",
           "Ignoring attempt to clear history, no sequence found for the session.">>
    ELSE <<>>

\* What sequence.clearHistory() leaves of the session's chat history is the
\* engine's business: it wipes the sequence state, and the chat history is
\* either kept or rewritten.
ClearHistory(s) ==
    /\ CanCall(s, "clearHistory")
    /\ \E seq \in (IF session = Undefined THEN {"unread"} ELSE sessionSequence) :
        IF seq = "DisposedError"
        THEN /\ Done(s, "clearHistory", <<>>, session, <<"sequence:threw", "throw">>,
                     "threw", Thrown("DisposedError"))
             /\ UNCHANGED <<status, history>>
        ELSE LET g == clearHistoryGuard(seq) IN
             IF g # <<>>
             THEN /\ status' = setStatus("error", <<"disposeSession: ", g[1]>>)
                  /\ Done(s, "clearHistory", <<>>, session,
                          <<SequenceRead(seq), "status:error", "throw">>,
                          "threw", Thrown(g[2]))
                  /\ UNCHANGED history
             ELSE /\ Done(s, "clearHistory", <<>>, session,
                          <<SequenceRead(seq), "engine:sequence.clearHistory", "return">>,
                          "returned", <<>>)
                  /\ history' \in {history, EngineOwned}
                  /\ UNCHANGED status
    /\ polled' = NotPolled
    /\ UNCHANGED <<id, caller, scope, module, llama, model, session, disposed, aborted, fired>>

----------------------------------------------------------------------------
(* getStatus(), isReady(), getId(), getInfos() *)

GetStatus ==
    /\ polled' = <<"getStatus", "returned", status>>
    /\ UNCHANGED <<id, caller, scope, history, status, module, llama, model, session, disposed,
                   aborted, fired, calls>>

IsReady ==
    /\ polled' = <<"isReady", "returned", isReady>>
    /\ UNCHANGED <<id, caller, scope, history, status, module, llama, model, session, disposed,
                   aborted, fired, calls>>

\* Fault: getId generates an identifier on every call.
GetId_Regenerates ==
    /\ id' \in scope.ids
    /\ polled' = <<"getId", "returned", id'>>
    /\ UNCHANGED <<caller, scope, history, status, module, llama, model, session, disposed,
                   aborted, fired, calls>>

GetId ==
    /\ polled' = <<"getId", "returned", id>>
    /\ UNCHANGED <<id, caller, scope, history, status, module, llama, model, session, disposed,
                   aborted, fired, calls>>

\* What `this.session.context` evaluates to.  On an undefined session the
\* property read throws a TypeError.  A live session has the context of its
\* sequence.  What a disposed session answers is up to the engine: it may
\* still have a context, have none, or throw.
sessionContext ==
    IF session = Undefined THEN {"TypeError"}
    ELSE IF session \in disposed THEN {"context", "none", "DisposedError"}
    ELSE {"context"}

\* Fault: the device-memory block tests the model instead of the engine
\* and reads a field the model does not have.
getInfos_NoLlama(ctx) ==
    IF ctx \in {"TypeError", "DisposedError"} THEN <<"threw", ctx>>
    ELSE <<"returned",
           (IF id # "" THEN {"id"} ELSE {})
           \cup (IF model # Undefined THEN {"model"} ELSE {})
           \cup (IF ctx = "context" THEN {"context"} ELSE {})>>

\* getInfos(): the fields of the object returned, or the error thrown
getInfos(ctx) ==
    IF ctx \in {"TypeError", "DisposedError"} THEN <<"threw", ctx>>
    ELSE <<"returned",
           (IF id # "" THEN {"id"} ELSE {})
           \cup (IF model # Undefined THEN {"model"} ELSE {})
           \cup (IF ctx = "context" THEN {"context"} ELSE {})
           \cup (IF llama # Undefined THEN {"llama"} ELSE {})>>

GetInfos ==
    /\ \E ctx \in sessionContext :
         polled' = <<"getInfos">> \o getInfos(ctx)
    /\ UNCHANGED <<id, caller, scope, history, status, module, llama, model, session, disposed,
                   aborted, fired, calls>>

----------------------------------------------------------------------------
(* Properties *)

DataOps == {"prompt", "getHistory", "setHistory"}
SetupOps == {"loadModule", "loadLlama", "loadModel", "initSession"}

\* Position of the first occurrence of event e in a trace, 0 when absent
Pos(trace, e) ==
    IF \E i \in 1..Len(trace) : trace[i] = e
    THEN CHOOSE i \in 1..Len(trace) :
            trace[i] = e /\ \A j \in 1..(i - 1) : trace[j] # e
    ELSE 0

\* The call of slot s was made while the handle its operation depends on
\* was absent.
PrerequisiteAbsent(s) ==
    \/ calls[s].op = "loadLlama" /\ calls[s].pre.module = Undefined
    \/ calls[s].op = "loadModel" /\ calls[s].pre.llama = Undefined
    \/ calls[s].op = "initSession" /\ calls[s].pre.model = Undefined

\* The call of slot s was rejected: it threw, the phase is 'error', and its
\* trace holds no engine call.
Rejected(s) ==
    /\ calls[s].st = "done"
    /\ calls[s].outcome = "threw"
    /\ calls[s].result[1] = "Error"
    /\ status.status = "error"
    /\ ~HasEngineCall(calls[s].trace)

\* C1: a setup call (loadLlama, loadModel, initSession) made while its
\* prerequisite handle is absent throws, leaves the phase 'error' and makes
\* no call into the engine; it is never left awaiting the engine.
C1_SetupWithoutPrerequisiteRejected ==
    \A s \in Slots :
        (calls[s].st # "idle" /\ PrerequisiteAbsent(s)) => Rejected(s)

\* loadModel was called with a path and a module but no engine, and threw.
C1_Witness ==
    \E s \in Slots :
        /\ calls[s].st = "done"
        /\ calls[s].op = "loadModel"
        /\ calls[s].arg = <<"model.gguf">>
        /\ calls[s].pre.module # Undefined
        /\ calls[s].pre.llama = Undefined
        /\ calls[s].outcome = "threw"

\* C2: prompt, getHistory and setHistory called while this.session has
\* never been assigned (only a successful initSession assigns it) throw,
\* leave the phase 'error' and make no call into the engine.
C2_DataOpWithoutSessionRejected ==
    \A s \in Slots :
        (calls[s].st # "idle" /\ calls[s].op \in DataOps
            /\ calls[s].pre.session = Undefined) => Rejected(s)

\* setHistory was called on an instance that has a model but no session.
C2_Witness ==
    \E s \in Slots :
        /\ calls[s].st = "done"
        /\ calls[s].op = "setHistory"
        /\ calls[s].pre.model # Undefined
        /\ calls[s].pre.session = Undefined
        /\ calls[s].outcome = "threw"

\* C3 as stated: every prompt call that fails leaves the phase 'error', has
\* the cancellation signal triggered exactly once, and throws.
C3_FailedPromptSignalsOnce ==
    \A s \in Slots :
        (calls[s].st = "done" /\ calls[s].op = "prompt"
            /\ calls[s].outcome # "returned") =>
            /\ status.status = "error"
            /\ aborted /\ fired = 1
            /\ calls[s].outcome = "threw"

\* C3 as amended: every prompt call that fails leaves the phase 'error' and
\* throws an Error instead of returning text.  When it was the engine call
\* that failed, the cancellation signal is set and has fired exactly once
\* since construction, however many failures there were; when the
\* no-session guard rejected the call, the abort action did not run.
C3_FailedPromptAmended ==
    /\ fired <= 1
    /\ \A s \in Slots :
        (calls[s].st = "done" /\ calls[s].op = "prompt"
            /\ calls[s].outcome # "returned") =>
            /\ status.status = "error"
            /\ calls[s].outcome = "threw"
            /\ calls[s].result[1] = "Error"
            /\ IF HasEngineCall(calls[s].trace)
               THEN aborted /\ fired = 1 /\ Pos(calls[s].trace, "abort") > 0
               ELSE Pos(calls[s].trace, "abort") = 0

\* A prompt failed in the engine on an instance whose signal had already
\* fired for an earlier failure.
C3_Witness ==
    \E s \in Slots :
        /\ calls[s].st = "done"
        /\ calls[s].op = "prompt"
        /\ calls[s].outcome = "threw"
        /\ HasEngineCall(calls[s].trace)
        /\ calls[s].pre.aborted
        /\ aborted
        /\ fired = 1

\* C4: an engine failure inside prompt, getHistory or setHistory runs the
\* abort action before the failure reaches the caller: the token is
\* signalled, the session is disposed, then the phase is set to 'error',
\* then the error is thrown.
C4_EngineFailureAbortsFirst ==
    \A s \in Slots :
        (calls[s].st = "done" /\ calls[s].op \in DataOps
            /\ calls[s].outcome # "returned"
            /\ HasEngineCall(calls[s].trace)) =>
            LET tr == calls[s].trace IN
            /\ calls[s].outcome = "threw"
            /\ aborted
            /\ session # Undefined /\ session \in disposed
            /\ status.status = "error"
            /\ 0 < Pos(tr, "abort")
            /\ Pos(tr, "abort") < Pos(tr, "engine:session.dispose")
            /\ Pos(tr, "engine:session.dispose") < Pos(tr, "status:error")
            /\ Pos(tr, "status:error") < Pos(tr, "throw")
            /\ Pos(tr, "throw") = Len(tr)

\* getHistory failed in the engine.
C4_Witness ==
    \E s \in Slots :
        /\ calls[s].st = "done"
        /\ calls[s].op = "getHistory"
        /\ calls[s].outcome = "threw"
        /\ HasEngineCall(calls[s].trace)
        /\ session \in disposed

\* C5: disposeSession without a session throws; after a successful
\* disposeSession the session is no longer present, and a prompt is never
\* handed to the engine on a session that has been disposed.
C5_DisposedSessionIsAbsent ==
    \A s \in Slots :
        /\ (calls[s].st = "done" /\ calls[s].op = "disposeSession"
                /\ calls[s].pre.session = Undefined) => calls[s].outcome = "threw"
        /\ (calls[s].st = "done" /\ calls[s].op = "disposeSession"
                /\ calls[s].outcome = "returned") => session = Undefined
        /\ (calls[s].st = "awaiting" /\ calls[s].op = "prompt")
                => calls[s].target \notin disposed

\* C6: getInfos never throws, and before any setup stage has been called it
\* returns at most the id field.
C6_GetInfosNeverFails ==
    polled[1] = "getInfos" =>
        /\ polled[2] = "returned"
        /\ (module = Undefined /\ llama = Undefined /\ model = Undefined
                /\ session = Undefined) => polled[3] \subseteq {"id"}

\* C7: whenever a public operation has thrown, the phase is 'error' when
\* the caller gets the error, and getStatus polled right after shows it.
C7_ThrownImpliesErrorPhase ==
    /\ \A s \in Slots :
        (calls[s].st = "done" /\ calls[s].outcome = "threw") =>
            /\ status.status = "error"
            /\ Pos(calls[s].trace, "status:error") > 0
            /\ polled[1] = "getStatus" => polled[3].status = "error"
    /\ (polled[1] = "getInfos" /\ polled[2] = "threw") => status.status = "error"

\* The literal prefix each setup stage puts before the engine's detail
StageTag(op) ==
    CASE op = "loadModule" -> "loadModule:"
      [] op = "loadLlama" -> "loadLlama: "
      [] op = "loadModel" -> "loadModel: "
      [] op = "initSession" -> "initSession: "

\* C8: a setup stage that passed its guards and whose engine call failed
\* leaves the phase 'error' and the message made of the stage's own tag
\* followed by the engine's detail, and throws that failure.
C8_SetupEngineFailureTagged ==
    \A s \in Slots :
        (calls[s].st = "done" /\ calls[s].op \in SetupOps
            /\ HasEngineCall(calls[s].trace)
            /\ Pos(calls[s].trace, "status:ready") = 0) =>
            /\ calls[s].outcome = "threw"
            /\ calls[s].result[1] = "Error"
            /\ calls[s].result[2] \in Details
            /\ status = [status |-> "error",
                         message |-> <<StageTag(calls[s].op), calls[s].result[2]>>]

\* loadModule and loadLlama succeeded, then loadModel's engine call failed.
C8_Witness ==
    \E s \in Slots :
        /\ calls[s].st = "done"
        /\ calls[s].op = "loadModel"
        /\ calls[s].pre.module # Undefined
        /\ calls[s].pre.llama # Undefined
        /\ HasEngineCall(calls[s].trace)
        /\ status.status = "error"
        /\ status.message[1] = "loadModel: "

\* C9: with a serialized caller, the phase is 'generating' while prompt or
\* getHistory awaits the engine and 'loading' while setHistory does; when
\* the engine call succeeds the phase is 'ready' as the operation returns,
\* and prompt returns the text the engine resolved with.
C9_PhaseWhileAwaiting ==
    \A s \in Slots :
        /\ (calls[s].st = "awaiting" /\ calls[s].op \in {"prompt", "getHistory"})
                => status.status = "generating"
        /\ (calls[s].st = "awaiting" /\ calls[s].op = "setHistory")
                => status.status = "loading"
        /\ (calls[s].st = "done" /\ calls[s].op \in DataOps
                /\ Pos(calls[s].trace, "throw") = 0) =>
                /\ calls[s].outcome = "returned"
                /\ status.status = "ready"
                /\ isReady
        /\ (calls[s].st = "done" /\ calls[s].op = "prompt"
                /\ Pos(calls[s].trace, "throw") = 0) =>
                calls[s].result = <<"text", Answer(calls[s].chunks)>>

\* setHistory returned after the engine accepted the history.
C9_Witness ==
    \E s \in Slots :
        /\ calls[s].st = "done"
        /\ calls[s].op = "setHistory"
        /\ calls[s].outcome = "returned"
        /\ status.status = "ready"

\* C10: once initSession has succeeded (which takes loadModule, loadLlama
\* and loadModel to have succeeded before it, in that order), isReady()
\* returns true and getInfos() returns id, model, context and llama.
C10_ReadyAfterFullSetup ==
    \A s \in Slots :
        (calls[s].st = "done" /\ calls[s].op = "initSession"
            /\ calls[s].outcome = "returned") =>
            /\ module # Undefined /\ llama # Undefined /\ model # Undefined
            /\ session # Undefined
            /\ polled[1] = "isReady" => polled[3] = TRUE
            /\ polled[1] = "getInfos" =>
                    /\ polled[2] = "returned"
                    /\ polled[3] = {"id", "model", "context", "llama"}

\* getInfos() was called right after initSession succeeded and returned
\* all four fields.
C10_Witness ==
    \E s \in Slots :
        /\ calls[s].st = "done"
        /\ calls[s].op = "initSession"
        /\ calls[s].outcome = "returned"
        /\ polled = <<"getInfos", "returned", {"id", "model", "context", "llama"}>>

\* C11 as stated: whenever the status is 'ready' a chat session exists,
\* so prompt would not be rejected by its no-session guard.
C11_ReadyMeansSession ==
    /\ isReady => ~noSession
    /\ (polled[1] = "isReady" /\ polled[3] = TRUE) => session # Undefined

\* C12: the cancellation signal is never re-armed.  Once it has fired it
\* stays set; every prompt called afterwards hands the engine the fired
\* signal and never returns a response, also on a session created by an
\* initSession that succeeded after the failure.
C12_SignalNeverRearmed ==
    /\ fired > 0 => aborted
    /\ \A s \in Slots :
        /\ (calls[s].st # "idle" /\ calls[s].pre.aborted) => aborted
        /\ (calls[s].st # "idle" /\ calls[s].op = "prompt" /\ calls[s].pre.aborted)
                => calls[s].outcome # "returned"

\* After a failure fired the signal, initSession created a new session and
\* a prompt on that live session was handed the fired signal and threw.
C12_Witness ==
    \E s \in Slots :
        /\ calls[s].st = "done"
        /\ calls[s].op = "prompt"
        /\ calls[s].pre.aborted
        /\ calls[s].pre.session = 2
        /\ 1 \in disposed
        /\ calls[s].outcome = "threw"
        /\ HasEngineCall(calls[s].trace)

\* C13 as stated: clearHistory returns whenever the session and its
\* sequence are present, and throws leaving the phase 'error' when there is
\* no session or the session has no sequence (it has been disposed).
C13_ClearHistoryGuarded ==
    \A s \in Slots :
        (calls[s].st = "done" /\ calls[s].op = "clearHistory") =>
            IF calls[s].pre.session # Undefined /\ calls[s].pre.session \notin disposed
            THEN calls[s].outcome = "returned"
            ELSE calls[s].outcome = "threw" /\ status.status = "error"

\* C14: a disposeSession that succeeds releases the session and nothing
\* else: the status (phase and message) and the module, engine and model
\* handles are what they were, so the guards of initSession still pass.
C14_DisposeReleasesOnlySession ==
    [][\A s \in Slots :
        (DisposeSession(s) /\ ~disposeSessionGuard) =>
            /\ status' = status
            /\ module' = module /\ llama' = llama /\ model' = model
            /\ session \in disposed'
            /\ module' # Undefined /\ model' # Undefined
            /\ initSessionGuard' = <<>>]_vars

\* After disposeSession released session 1 (no failure ever ran the abort
\* action), initSession created session 2 with the handles it found.
C14_Witness ==
    \E s \in Slots :
        /\ calls[s].st = "done"
        /\ calls[s].op = "initSession"
        /\ calls[s].outcome = "returned"
        /\ calls[s].pre.session = 1
        /\ 1 \in disposed
        /\ ~aborted
        /\ session = 2
        /\ module = calls[s].pre.module
        /\ llama = calls[s].pre.llama
        /\ model = calls[s].pre.model

\* The call of slot s passed the guards of its own stage.
OwnPrecondition(s) ==
    /\ ~PrerequisiteAbsent(s)
    /\ calls[s].op = "loadModel" => calls[s].arg[1] \notin {NoPath, ""}

\* The handle the stage of slot s fills is the next one after the handle
\* the call found.
Produced(s) ==
    CASE calls[s].op = "loadModule" -> module = calls[s].pre.module + 1
      [] calls[s].op = "loadLlama" -> llama = calls[s].pre.llama + 1
      [] calls[s].op = "loadModel" -> model = calls[s].pre.model + 1
      [] calls[s].op = "initSession" -> session = calls[s].pre.session + 1
      [] OTHER -> FALSE

\* The stage of slot s had already produced its handle when the call began.
Satisfied(s) ==
    CASE calls[s].op = "loadModule" -> calls[s].pre.module # Undefined
      [] calls[s].op = "loadLlama" -> calls[s].pre.llama # Undefined
      [] calls[s].op = "loadModel" -> calls[s].pre.model # Undefined
      [] calls[s].op = "initSession" -> calls[s].pre.session # Undefined
      [] OTHER -> FALSE

\* C15: the phase 'error' is not absorbing.  A setup stage called in phase
\* 'error' whose own precondition holds is handed to the engine, and when
\* the engine call does not fail it returns with its handle produced and
\* the phase 'ready'; a stage whose prerequisite handle is absent is
\* rejected again.
C15_ErrorNotAbsorbing ==
    \A s \in Slots :
        (calls[s].st # "idle" /\ calls[s].op \in SetupOps /\ calls[s].pre.inError) =>
            /\ OwnPrecondition(s) => HasEngineCall(calls[s].trace)
            /\ (calls[s].st = "done" /\ OwnPrecondition(s)
                    /\ Pos(calls[s].trace, "throw") = 0) =>
                    /\ calls[s].outcome = "returned"
                    /\ Produced(s)
                    /\ status.status = "ready"
            /\ PrerequisiteAbsent(s) => Rejected(s)

\* loadLlama was called in phase 'error' with the module loaded and
\* returned with the phase 'ready'.
C15_Witness ==
    \E s \in Slots :
        /\ calls[s].st = "done"
        /\ calls[s].op = "loadLlama"
        /\ calls[s].pre.inError
        /\ calls[s].pre.module # Undefined
        /\ calls[s].outcome = "returned"
        /\ status.status = "ready"

\* C16: a getHistory called right after a setHistory(items) that returned,
\* items not empty, returns (when its engine call does not fail) a list
\* equal to items, and the phase is 'ready'.
C16_SetThenGetHistory ==
    \A s \in Slots :
        (calls[s].st = "done" /\ calls[s].op = "getHistory"
            /\ calls[s].after[1] = "setHistory"
            /\ Pos(calls[s].trace, "throw") = 0) =>
            (calls[s].after[2] # <<>> =>
                /\ calls[s].outcome = "returned"
                /\ calls[s].result = <<"history", calls[s].after[2]>>
                /\ status.status = "ready")

\* getHistory returned the system and user items setHistory had just been
\* handed.
C16_Witness ==
    \E s \in Slots :
        /\ calls[s].st = "done"
        /\ calls[s].op = "getHistory"
        /\ calls[s].after = <<"setHistory", <<SystemItem, UserItem>>>>
        /\ calls[s].outcome = "returned"
        /\ calls[s].result = <<"history", <<SystemItem, UserItem>>>>

\* C17: a prompt handed an onToken has its callback invoked once per chunk
\* the engine has produced, in the order produced, with the decoded text
\* of that chunk; when the prompt returns every invocation lies before the
\* return and the texts seen, concatenated, are the response returned.
C17_OnTokenPerChunk ==
    \A s \in Slots :
        (calls[s].st # "idle" /\ calls[s].op = "prompt") =>
            (calls[s].arg[1] =>
                /\ Len(calls[s].seen) = Len(calls[s].chunks)
                /\ \A i \in 1..Len(calls[s].chunks) :
                        calls[s].seen[i] = detokenize(calls[s].chunks[i])
                /\ (calls[s].st = "done" /\ calls[s].outcome = "returned") =>
                        LET tr == calls[s].trace IN
                        /\ Flatten(calls[s].seen) = calls[s].result[2]
                        /\ Cardinality({i \in 1..Len(tr) : tr[i] = "onToken"})
                                = Len(calls[s].chunks)
                        /\ \A i \in 1..Len(tr) :
                                tr[i] = "onToken" => i < Pos(tr, "return"))

\* A prompt with an onToken returned after the engine produced two
\* different chunks: the callback saw "Hi!" then "!".
C17_Witness ==
    \E s \in Slots :
        /\ calls[s].st = "done"
        /\ calls[s].op = "prompt"
        /\ calls[s].arg = <<TRUE>>
        /\ calls[s].outcome = "returned"
        /\ calls[s].chunks = << <<1, 2>>, <<2>> >>
        /\ calls[s].seen = << <<"H", "i", "!">>, <<"!">> >>
        /\ calls[s].result = <<"text", <<"H", "i", "!", "!">>>>

\* C18: a setup stage called again when it had already produced its
\* handle, its own precondition holding and its engine call not failing,
\* returns with the next handle stored in place of the previous one, makes
\* no dispose call, and leaves the phase 'ready'.
C18_ReloadReplacesHandle ==
    \A s \in Slots :
        (calls[s].st = "done" /\ calls[s].op \in SetupOps /\ Satisfied(s)
            /\ OwnPrecondition(s) /\ Pos(calls[s].trace, "throw") = 0) =>
            /\ calls[s].outcome = "returned"
            /\ Produced(s)
            /\ Pos(calls[s].trace, "engine:session.dispose") = 0
            /\ status.status = "ready"

\* initSession was called with session 1 present and live, and returned
\* with session 2 stored; session 1 was not disposed.
C18_Witness ==
    \E s \in Slots :
        /\ calls[s].st = "done"
        /\ calls[s].op = "initSession"
        /\ calls[s].pre.session = 1
        /\ calls[s].outcome = "returned"
        /\ session = 2
        /\ 1 \notin disposed
        /\ status.status = "ready"

\* C19: while no operation has been called on the instance, the phase is
\* 'uninitialized': getStatus() reports it and isReady() returns false.
C19_UninitializedAfterConstruction ==
    (\A s \in Slots : calls[s].st = "idle") =>
        /\ status.status = "uninitialized"
        /\ ~isReady
        /\ polled[1] = "getStatus" => polled[3].status = "uninitialized"
        /\ polled[1] = "isReady" => polled[3] = FALSE

\* isReady() was called on the instance just constructed.
C19_Witness ==
    /\ \A s \in Slots : calls[s].st = "idle"
    /\ polled = <<"isReady", "returned", FALSE>>

\* C20: no step changes the identifier, and getId() returns it.
C20_IdStable ==
    [][/\ id' = id
       /\ polled'[1] = "getId" => polled'[3] = id]_vars

\* getId() returned the identifier after an engine failure had run the
\* abort action and a later operation had returned.
C20_Witness ==
    /\ polled = <<"getId", "returned", id>>
    /\ aborted
    /\ \E s \in Slots : calls[s].st = "done" /\ calls[s].outcome = "returned"

\* The operations that call into the session
SessionOps == DataOps \cup {"clearHistory", "disposeSession"}

\* C21 as stated: a call that finds in this.session a session that has
\* already been disposed makes no call into the engine with it, dispose
\* included (so no session is disposed twice).
C21_NoCallOnDisposedSession ==
    \A s \in Slots :
        (calls[s].st # "idle" /\ calls[s].op \in SessionOps
            /\ calls[s].pre.released) => ~HasEngineCall(calls[s].trace)

\* A step in which the call of slot s begins and is rejected by one of the
\* guards of its operation.
GuardRejects(s) ==
    /\ \/ LoadLlama(s) \/ LoadModel(s) \/ InitSession(s)
       \/ Prompt(s) \/ GetHistory(s) \/ SetHistory(s)
       \/ DisposeSession(s) \/ ClearHistory(s)
    /\ calls'[s].st = "done"
    /\ calls'[s].outcome = "threw"
    /\ Pos(calls'[s].trace, "status:error") > 0

\* C22: a call rejected by a guard changes only the status: the handles,
\* the set of disposed sessions and the cancellation signal are what they
\* were, and nothing was called in the engine.
C22_GuardRejectionChangesOnlyStatus ==
    [][\A s \in Slots :
        GuardRejects(s) =>
            /\ module' = module /\ llama' = llama /\ model' = model
            /\ session' = session
            /\ disposed' = disposed
            /\ aborted' = aborted /\ fired' = fired
            /\ id' = id
            /\ ~HasEngineCall(calls'[s].trace)
            /\ status'.status = "error"]_vars

\* prompt was rejected for want of a session on an instance whose model is
\* loaded: the model is still there, nothing was aborted or disposed.
C22_Witness ==
    \E s \in Slots :
        /\ calls[s].st = "done"
        /\ calls[s].op = "prompt"
        /\ calls[s].outcome = "threw"
        /\ calls[s].pre.session = Undefined
        /\ calls[s].pre.model # Undefined
        /\ model = calls[s].pre.model
        /\ session = Undefined
        /\ disposed = {}
        /\ ~aborted /\ fired = 0
        /\ status.status = "error"

\* The prefix made of the name of the operation
OperationTag(op) ==
    IF op \in SetupOps THEN StageTag(op)
    ELSE CASE op = "prompt" -> "prompt: "
           [] op = "getHistory" -> "getHistory: "
           [] op = "setHistory" -> "setHistory: "
           [] op = "disposeSession" -> "disposeSession: "
           [] op = "clearHistory" -> "clearHistory: "

\* C23 as stated: after an operation has thrown, whether a guard rejected
\* it or the engine failed, the status message begins with the name of that
\* operation.
C23_MessageNamesFailedOperation ==
    \A s \in Slots :
        (calls[s].st = "done" /\ calls[s].outcome = "threw") =>
            /\ Len(status.message) > 0
            /\ status.message[1] = OperationTag(calls[s].op)

\* C24: loadModel tests the path, then the module, then the engine, and
\* reports the first test that fails: without a path 'No path provided.'
\* whatever handles exist, with a path and no module 'No module found.',
\* with a module and no engine 'No llama lib loaded.'; the engine's
\* loadModel is called only when the three tests pass.
C24_LoadModelGuardOrder ==
    \A s \in Slots :
        (calls[s].st # "idle" /\ calls[s].op = "loadModel") =>
            LET path == calls[s].arg[1]
                reported == IF path \in {NoPath, ""} THEN "No path provided."
                            ELSE IF calls[s].pre.module = Undefined THEN "No module found."
                            ELSE IF calls[s].pre.llama = Undefined THEN "No llama lib loaded."
                            ELSE "" IN
            IF reported # ""
            THEN /\ Rejected(s)
                 /\ status.message = <<"loadModel: ", reported>>
            ELSE /\ Pos(calls[s].trace, "engine:loadModel") > 0
                 /\ calls[s].trace[1] = "status:loading"

\* loadModel('') was called with the module and the engine loaded and was
\* rejected for the path.
C24_Witness ==
    \E s \in Slots :
        /\ calls[s].st = "done"
        /\ calls[s].op = "loadModel"
        /\ calls[s].arg = <<"">>
        /\ calls[s].pre.module # Undefined
        /\ calls[s].pre.llama # Undefined
        /\ calls[s].outcome = "threw"
        /\ status.message = <<"loadModel: ", "No path provided.">>

\* C25: the handles respect the dependency chain: a session only with a
\* model, a model only with an engine, an engine only with a module.
C25_DependencyChain ==
    /\ session # Undefined => model # Undefined
    /\ model # Undefined => llama # Undefined
    /\ llama # Undefined => module # Undefined

\* All four handles are present, the session disposed by a failure.
C25_Witness ==
    /\ module # Undefined /\ llama # Undefined /\ model # Undefined
    /\ session # Undefined
    /\ session \in disposed
    /\ status.status = "error"

\* C26: with a serialized caller, a setup stage whose engine call failed
\* leaves the four handles, the disposal of the session and the
\* cancellation signal as the call found them; the phase is 'error'.
C26_FailedStageKeepsHandles ==
    \A s \in Slots :
        (calls[s].st = "done" /\ calls[s].op \in SetupOps
            /\ HasEngineCall(calls[s].trace) /\ calls[s].outcome = "threw") =>
            /\ module = calls[s].pre.module
            /\ llama = calls[s].pre.llama
            /\ model = calls[s].pre.model
            /\ session = calls[s].pre.session
            /\ (session \in disposed) = calls[s].pre.released
            /\ aborted = calls[s].pre.aborted
            /\ status.status = "error"

\* initSession failed in the engine while session 1 was present and live:
\* session 1 is still the session, and still live.
C26_Witness ==
    \E s \in Slots :
        /\ calls[s].st = "done"
        /\ calls[s].op = "initSession"
        /\ calls[s].outcome = "threw"
        /\ HasEngineCall(calls[s].trace)
        /\ calls[s].pre.session = 1
        /\ session = 1
        /\ 1 \notin disposed

\* C27: with a serialized caller, whenever no call awaits the engine the
\* phase is 'uninitialized', 'ready' or 'error'.
C27_SettledPhase ==
    (caller = "serialized" /\ \A s \in Slots : calls[s].st # "awaiting") =>
        status.status \in {"uninitialized", "ready", "error"}

\* A prompt that set 'generating' failed in the engine; after the abort
\* action the phase is 'error'.
C27_Witness ==
    /\ \A s \in Slots : calls[s].st # "awaiting"
    /\ \E s \in Slots :
        /\ calls[s].st = "done"
        /\ calls[s].op = "prompt"
        /\ Pos(calls[s].trace, "status:generating") > 0
        /\ Pos(calls[s].trace, "abort") > 0
        /\ calls[s].outcome = "threw"
    /\ status.status = "error"

\* C28 as stated: when the session of a streaming prompt is disposed
\* between two chunks (by disposeSession or by the abort action of another
\* operation's failure), onToken is not invoked for a chunk produced after
\* that.
C28_NoCallbackAfterRelease ==
    \A s \in Slots :
        (calls[s].st # "idle" /\ calls[s].op = "prompt" /\ ~calls[s].pre.released) =>
            LET tr == calls[s].trace IN
            \A i \in 1..(Len(tr) - 1) :
                tr[i] = "chunk:released" => tr[i + 1] # "onToken"

\* C29 as stated: while a prompt awaits the engine the status is never
\* 'ready', whatever other data operation overlaps it.
C29_NotReadyWhileGenerating ==
    \A s \in Slots :
        (calls[s].st = "awaiting" /\ calls[s].op = "prompt") => ~isReady

----------------------------------------------------------------------------

Next ==
    \/ \E s \in Slots :
        \/ LoadModule(s)
        \/ LoadModuleOk(s)
        \/ LoadModuleFail(s)
        \/ LoadLlama(s)
        \/ LoadLlamaOk(s)
        \/ LoadLlamaFail(s)
        \/ LoadModel(s)
        \/ LoadModelOk(s)
        \/ LoadModelFail(s)
        \/ InitSession(s)
        \/ InitSessionOk(s)
        \/ InitSessionFail(s)
        \/ Prompt(s)
        \/ PromptChunk(s)
        \/ PromptOk(s)
        \/ PromptFail(s)
        \/ GetHistory(s)
        \/ GetHistoryOk(s)
        \/ GetHistoryFail(s)
        \/ SetHistory(s)
        \/ SetHistoryOk(s)
        \/ SetHistoryFail(s)
        \/ DisposeSession(s)
        \/ ClearHistory(s)
    \/ GetStatus
    \/ IsReady
    \/ GetId
    \/ GetInfos

Spec == Init /\ [][Next]_vars

SpecReload == InitReload /\ [][Next]_vars

SpecHistory == InitHistory /\ [][Next]_vars

SpecStream == InitStream /\ [][Next]_vars

SpecOverlap == InitOverlap /\ [][Next]_vars

====
